---- MODULE Spec2Model ----
(***************************************************************************)
(* Model of the two programs of the repository:                            *)
(*   adobe-round1a/pdf_outline_extractor.py  (title + heading outline)     *)
(*   adobe_round1b/main.py                   (sections + persona ranking)  *)
(*                                                                         *)
(* Text is a sequence of one-character strings, so that strip, lower,      *)
(* split, the regular expressions and the f-strings are computed the way   *)
(* the code computes them.  Font sizes are integers (points); a statistic  *)
(* that is a fraction of sizes is kept multiplied by 20, which makes the   *)
(* median (halves), the quartiles (quarters) and the deciles (tenths)      *)
(* exact integers.                                                          *)
(***************************************************************************)
EXTENDS Integers, Sequences, FiniteSets, TLC

(***************************************************************************)
(* Bounds of the model.                                                    *)
(***************************************************************************)
MaxLines == 3
MaxFiles == 2
MaxTitleLines == 2
MaxSpans == 3
MaxBlocks == 3
MaxPdfs == 3
MaxScore == 3

(***************************************************************************)
(* Characters and strings.                                                 *)
(***************************************************************************)
UC == <<"A","B","C","D","E","F","G","H","I","J","K","L","M",
        "N","O","P","Q","R","S","T","U","V","W","X","Y","Z">>
LC == <<"a","b","c","d","e","f","g","h","i","j","k","l","m",
        "n","o","p","q","r","s","t","u","v","w","x","y","z">>
DigitChars == <<"0","1","2","3","4","5","6","7","8","9">>

Range(s) == {s[i] : i \in DOMAIN s}
IsUpperChar(c) == c \in Range(UC)
IsLowerChar(c) == c \in Range(LC)
IsDigitChar(c) == c \in Range(DigitChars)
IsSpaceChar(c) == c \in {" ", "\n", "\t"}

\* Characters outside ASCII are named by their code point.
\* Hiragana/Katakana U+3040..U+30FF
KanaChars == {"u306E", "u30AB"}
\* CJK Unified Ideographs U+4E00..U+9FFF: numerals, "dai", "sho", "setsu"
CJKNumerals == {"u4E00", "u4E8C", "u4E09", "u5341"}
CJKChars == CJKNumerals \cup {"u7B2C", "u7AE0", "u7BC0", "u4E2D"}
\* Hangul Syllables U+AC00..U+D7A3
HangulChars == {"uD55C"}

LowerChar(c) ==
  IF IsUpperChar(c) THEN LC[CHOOSE i \in DOMAIN UC : UC[i] = c] ELSE c

\* str.lower()
Lower(s) == [i \in DOMAIN s |-> LowerChar(s[i])]

RECURSIVE LStrip(_)
LStrip(s) ==
  IF s # <<>> /\ IsSpaceChar(Head(s)) THEN LStrip(Tail(s)) ELSE s

RECURSIVE RStrip(_)
RStrip(s) ==
  IF s # <<>> /\ IsSpaceChar(s[Len(s)])
  THEN RStrip(SubSeq(s, 1, Len(s) - 1)) ELSE s

\* str.strip()
Strip(s) == RStrip(LStrip(s))

\* str.endswith(suffix)
EndsWith(s, suffix) ==
  /\ Len(s) >= Len(suffix)
  /\ SubSeq(s, Len(s) - Len(suffix) + 1, Len(s)) = suffix

\* sub in s
Contains(s, sub) ==
  \E i \in 1..(Len(s) - Len(sub) + 1) : SubSeq(s, i, i + Len(sub) - 1) = sub

\* len(s.split()): a word starts at every non-space character that is first
\* or follows a space character.
WordCount(s) ==
  Cardinality({i \in DOMAIN s :
     /\ ~IsSpaceChar(s[i])
     /\ (i = 1 \/ IsSpaceChar(s[i - 1]))})

\* s.replace(c, '', 1)
RECURSIVE RemoveFirst(_, _)
RemoveFirst(s, c) ==
  IF s = <<>> THEN <<>>
  ELSE IF Head(s) = c THEN Tail(s)
  ELSE <<Head(s)>> \o RemoveFirst(Tail(s), c)

\* s.replace(c, '')
RemoveAll(s, c) == SelectSeq(s, LAMBDA ch : ch # c)

\* s.replace(c, d) for single characters
ReplaceChar(s, c, d) == [i \in DOMAIN s |-> IF s[i] = c THEN d ELSE s[i]]

\* str.isdigit()
IsDigitStr(s) == s # <<>> /\ \A i \in DOMAIN s : IsDigitChar(s[i])

\* str.isupper(): at least one cased character and no lowercase one
IsUpperStr(s) ==
  /\ \E i \in DOMAIN s : IsUpperChar(s[i])
  /\ \A i \in DOMAIN s : ~IsLowerChar(s[i])

\* str.istitle(): an uppercase character only after an uncased one, a
\* lowercase character only after a cased one, and at least one cased
IsCasedChar(c) == IsUpperChar(c) \/ IsLowerChar(c)
IsTitleStr(s) ==
  /\ \E i \in DOMAIN s : IsCasedChar(s[i])
  /\ \A i \in DOMAIN s :
       LET prevCased == i > 1 /\ IsCasedChar(s[i - 1])
       IN /\ IsUpperChar(s[i]) => ~prevCased
          /\ IsLowerChar(s[i]) => prevCased

\* str(n) for n >= 0
RECURSIVE IntToStr(_)
IntToStr(n) ==
  IF n < 10 THEN <<DigitChars[n + 1]>>
  ELSE IntToStr(n \div 10) \o <<DigitChars[(n % 10) + 1]>>

\* sep.join(parts)
RECURSIVE Join(_, _)
Join(sep, parts) ==
  IF parts = <<>> THEN <<>>
  ELSE IF Len(parts) = 1 THEN parts[1]
  ELSE parts[1] \o sep \o Join(sep, Tail(parts))

RECURSIVE Repeat(_, _)
Repeat(s, n) == IF n = 0 THEN <<>> ELSE s \o Repeat(s, n - 1)

\* sorted(s, key=...): a stable sort; LessEq(a, b) is key(a) <= key(b).
\* An element is inserted after every element whose key is not greater.
RECURSIVE InsertSorted(_, _, _)
InsertSorted(LessEq(_, _), sorted, e) ==
  IF sorted = <<>> THEN <<e>>
  ELSE IF LessEq(Head(sorted), e)
       THEN <<Head(sorted)>> \o InsertSorted(LessEq, Tail(sorted), e)
       ELSE <<e>> \o sorted

RECURSIVE StableSort(_, _)
StableSort(LessEq(_, _), s) ==
  IF s = <<>> THEN <<>>
  ELSE InsertSorted(LessEq, StableSort(LessEq, SubSeq(s, 1, Len(s) - 1)),
                    s[Len(s)])

Min(a, b) == IF a <= b THEN a ELSE b

(***************************************************************************)
(* State.                                                                  *)
(*   Outline extractor (pdf_outline_extractor.py):                         *)
(*     nFiles, fileIdx   the *.pdf files of the input directory, and the   *)
(*                       one process_directory is at (1-based)             *)
(*     doc               the document under the extractor                  *)
(*     title, font_stats, lineIdx, outline, seen_headings                  *)
(*                       the locals of extract_outline                     *)
(*     result            what extract_outline returned for the file        *)
(*     attempted, written    the files whose <stem>.json was opened for    *)
(*                       writing, and those whose write succeeded          *)
(*     failed            the files on which extract_outline caught an      *)
(*                       exception (the ones it prints "Error processing") *)
(*     absorbed          the files on which detect_title caught an         *)
(*                       exception of its own and gave its fallback        *)
(*   Section ranking (main.py):                                            *)
(*     pdf               the document under extract_text_from_pdf          *)
(*     headings, sections, usedFallback    its locals and which path ran   *)
(*     pdf_files, pdfIdx, all_sections, ranked_sections, final_output,     *)
(*     persona, outputWritten     the locals of run_analysis               *)
(*   pc                  the position of the program                       *)
(*   A single call of detect_title or _get_font_stats (on doc):            *)
(*     in_metadata       the title field of doc.metadata ("" when absent)  *)
(*     in_raisesAt       where the PDF parser raises during the call       *)
(*     in_onePointRaises whether statistics.quantiles raises on a single   *)
(*                       data point (it does before Python 3.13)           *)
(*     raised            the call ended in an exception                    *)
(***************************************************************************)
VARIABLES pc, in_metadata, in_raisesAt, in_onePointRaises, raised,
          nFiles, fileIdx, doc, title, font_stats, lineIdx, outline,
          seen_headings, result, attempted, written, failed, absorbed,
          pdf, headings, sections, usedFallback,
          pdf_files, pdfIdx, all_sections, ranked_sections, final_output,
          persona, outputWritten

varsCall == <<in_metadata, in_raisesAt, in_onePointRaises, raised>>
varsOutline == <<nFiles, fileIdx, doc, title, font_stats, lineIdx, outline,
                 seen_headings, result, attempted, written, failed, absorbed>>
varsSegment == <<pdf, headings, sections, usedFallback>>
varsAnalysis == <<pdf_files, pdfIdx, all_sections, ranked_sections,
                  final_output, persona, outputWritten>>
vars == <<pc, varsOutline, varsCall, varsSegment, varsAnalysis>>

(***************************************************************************)
(* pdf_outline_extractor.py                                                *)
(*                                                                         *)
(* A document is [npages, height, lines]; a line is [page, spans] with a   *)
(* 0-based page; a span is [text, size, font, y] with y the top of its     *)
(* bounding box (bbox[1]).  Blocks without lines (images) carry nothing    *)
(* the extractor reads, so a page is the sequence of its lines.            *)
(***************************************************************************)
max_pages_to_analyze == 50

S_Untitled == <<"U","n","t","i","t","l","e","d"," ",
                "D","o","c","u","m","e","n","t">>
S_Error == <<"E","r","r","o","r"," ","P","r","o","c","e","s","s","i","n","g",
             " ","D","o","c","u","m","e","n","t">>
S_Empty == <<"E","m","p","t","y"," ","D","o","c","u","m","e","n","t">>
S_bold == <<"b","o","l","d">>
S_dotpdf == <<".","p","d","f">>

\* doc[page_num].get_text("dict"): the lines of one page, in emission order
PageLines(d, page_num) == SelectSeq(d.lines, LAMBDA l : l.page = page_num)

\* for page_num in range(pages_to_scan): for block: for line -- the lines of
\* the pages page_num..pages_to_scan-1, page by page, each page's lines in
\* their emission order (a page without lines adds nothing)
LinesOfPages(d, page_num, pages_to_scan) ==
  StableSort(LAMBDA a, b : a.page <= b.page,
             SelectSeq(d.lines, LAMBDA l :
                page_num <= l.page /\ l.page < pages_to_scan))

\* the pages among page_num..pages_to_scan-1 that carry a line, ascending
PagesWithLines(d, page_num, pages_to_scan) ==
  LET ls == LinesOfPages(d, page_num, pages_to_scan)
      firsts == SelectSeq([i \in DOMAIN ls |-> [idx |-> i, page |-> ls[i].page]],
                          LAMBDA e : e.idx = 1 \/ ls[e.idx - 1].page # e.page)
  IN [i \in DOMAIN firsts |-> firsts[i].page]

PagesToScanNoCap(d) == d.npages
PagesToScan(d) == Min(d.npages, max_pages_to_analyze)

\* every span of the given lines, in order
RECURSIVE SpansOf(_)
SpansOf(ls) == IF ls = <<>> THEN <<>> ELSE Head(ls).spans \o SpansOf(Tail(ls))

SortInts(s) == StableSort(LAMBDA a, b : a <= b, s)

\* 20 * statistics.median(data), data not empty
Median20(data) ==
  LET d == SortInts(data)
      n == Len(d)
  IN IF n % 2 = 1 THEN 20 * d[(n + 1) \div 2]
     ELSE 10 * (d[n \div 2] + d[(n \div 2) + 1])

\* 20 * statistics.quantiles(data, n=n)[k] (method 'exclusive'), for at least
\* two data points and n in {4, 10}
Quantile20(data, n, k) ==
  LET d == SortInts(data)
      ld == Len(d)
      m == ld + 1
      i == k + 1
      j0 == (i * m) \div n
      j == IF j0 < 1 THEN 1 ELSE IF j0 > ld - 1 THEN ld - 1 ELSE j0
      delta == i * m - j * n
  IN (d[j] * (n - delta) + d[j + 1] * delta) * (20 \div n)

\* _get_font_stats.  raises: the parser raises while a page is read.
\* onePointRaises: statistics.quantiles raises StatisticsError on one data
\* point (Python < 3.13); otherwise it returns that point for every cut.
FontStatsFallback == [raised |-> FALSE, median |-> 240, p75 |-> 280, p90 |-> 320]
FontStatsRaised == [raised |-> TRUE, median |-> 0, p75 |-> 0, p90 |-> 0]

CollectFontSizes(d, pages_to_scan) ==
  LET spans == SelectSeq(SpansOf(LinesOfPages(d, 0, pages_to_scan)),
                         LAMBDA s : Strip(s.text) # <<>>)
  IN [i \in DOMAIN spans |-> spans[i].size]

get_font_stats(d, raises, onePointRaises) ==
  LET all_font_sizes == CollectFontSizes(d, PagesToScan(d))
  IN IF raises /\ PagesToScan(d) > 0 THEN FontStatsRaised
     ELSE IF all_font_sizes = <<>> THEN FontStatsFallback
     ELSE IF Len(all_font_sizes) = 1
          THEN IF onePointRaises THEN FontStatsRaised
               ELSE [raised |-> FALSE,
                     median |-> Median20(all_font_sizes),
                     p75 |-> 20 * all_font_sizes[1],
                     p90 |-> 20 * all_font_sizes[1]]
     ELSE [raised |-> FALSE,
           median |-> Median20(all_font_sizes),
           p75 |-> Quantile20(all_font_sizes, 4, 2),
           p90 |-> Quantile20(all_font_sizes, 10, 8)]

\* _detect_language
detect_language(text) ==
  IF \E i \in DOMAIN text : text[i] \in KanaChars THEN "japanese"
  ELSE IF \E i \in DOMAIN text : text[i] \in CJKChars THEN "chinese"
  ELSE IF \E i \in DOMAIN text : text[i] \in HangulChars THEN "korean"
  ELSE "english"

AllIn(s, a, b, P(_)) == \A k \in a..b : P(s[k])

\* re.match(r"^[A-Z]\s*-\s*\d+$", s)
MatchesLetterDashNumber(s) ==
  /\ Len(s) >= 3
  /\ IsUpperChar(s[1])
  /\ \E i \in 2..Len(s) : \E j \in (i + 1)..Len(s) :
       /\ AllIn(s, 2, i - 1, IsSpaceChar)
       /\ s[i] = "-"
       /\ AllIn(s, i + 1, j - 1, IsSpaceChar)
       /\ AllIn(s, j, Len(s), IsDigitChar)

\* re.match(r"^[A-Z]\s*\d+/\d+$", s)
MatchesLetterNumberSlashNumber(s) ==
  /\ Len(s) >= 4
  /\ IsUpperChar(s[1])
  /\ \E i \in 2..Len(s) : \E k \in (i + 1)..(Len(s) - 1) :
       /\ AllIn(s, 2, i - 1, IsSpaceChar)
       /\ AllIn(s, i, k - 1, IsDigitChar)
       /\ s[k] = "/"
       /\ AllIn(s, k + 1, Len(s), IsDigitChar)

\* re.search(r'dai[numerals or \d]+[sho setsu]', s)
IsJapaneseNumeral(c) == c \in CJKNumerals \/ IsDigitChar(c)
SearchJapaneseChapter(s) ==
  \E i \in DOMAIN s : \E j \in (i + 2)..Len(s) :
    /\ s[i] = "u7B2C"
    /\ AllIn(s, i + 1, j - 1, IsJapaneseNumeral)
    /\ s[j] \in {"u7AE0", "u7BC0"}

\* _is_heading; font_stats holds 20 times the statistics, so
\*   font_size <= median * 1.15   is   2000 * font_size <= 115 * median20
\*   font_size >  median * 1.2    is    200 * font_size >   12 * median20
is_heading(line_text, font_size, is_bold, fs) ==
  IF 2000 * font_size <= 115 * fs.median /\ ~is_bold THEN FALSE
  ELSE IF ~(3 < Len(line_text) /\ Len(line_text) < 150) THEN FALSE
  ELSE IF MatchesLetterDashNumber(line_text)
          \/ MatchesLetterNumberSlashNumber(line_text) THEN FALSE
  ELSE IF WordCount(line_text) > 12 THEN FALSE
  ELSE IF EndsWith(line_text, <<".">>) /\ WordCount(line_text) > 6 THEN FALSE
  ELSE IF detect_language(line_text) = "japanese"
          /\ SearchJapaneseChapter(line_text) THEN TRUE
  ELSE IF 200 * font_size > 12 * fs.median /\ is_bold THEN TRUE
  ELSE IF 20 * font_size > fs.p75 THEN TRUE
  ELSE FALSE

\* _classify_heading_level
classify_heading_level(font_size, fs) ==
  IF 20 * font_size >= fs.p90 THEN "H1"
  ELSE IF 20 * font_size >= fs.p75 THEN "H2"
  ELSE "H3"

\* the texts of a line's spans
SpanTexts(l) == [i \in DOMAIN l.spans |-> l.spans[i].text]
StrippedSpanTexts(l) == [i \in DOMAIN l.spans |-> Strip(l.spans[i].text)]

\* detect_title, the body of its try block.  raisesAt: where the parser
\* raises ("none", "metadata", "page").  returned: a return statement ran.
TitleCandidates(d) ==
  LET ls == SelectSeq(PageLines(d, 0), LAMBDA l :
              /\ Strip(Join(<<>>, SpanTexts(l))) # <<>>
              /\ l.spans # <<>>
              /\ 10 * l.spans[1].y < 4 * d.height)
  IN [i \in DOMAIN ls |->
        [text |-> Strip(Join(<<>>, SpanTexts(ls[i]))),
         size |-> ls[i].spans[1].size,
         y_pos |-> ls[i].spans[1].y]]

TitleKeyLessEq(a, b) ==
  \/ a.size > b.size
  \/ a.size = b.size /\ a.y_pos <= b.y_pos

DetectTitleTry(d, metadata, raisesAt) ==
  LET t == Strip(metadata)
      candidates == StableSort(TitleKeyLessEq, TitleCandidates(d))
      Raise == [raised |-> TRUE, returned |-> FALSE, value |-> <<>>]
      Return(v) == [raised |-> FALSE, returned |-> TRUE, value |-> v]
  IN IF raisesAt = "metadata" THEN Raise
     ELSE IF metadata # <<>> /\ t # <<>> /\ Len(t) > 4
             /\ ~EndsWith(Lower(t), S_dotpdf) THEN Return(t)
     ELSE IF d.npages = 0 \/ raisesAt = "page" THEN Raise
     ELSE IF candidates # <<>> THEN Return(candidates[1].text)
     ELSE [raised |-> FALSE, returned |-> FALSE, value |-> <<>>]

DetectTitleNoCatch(d, metadata, raisesAt) ==
  LET r == DetectTitleTry(d, metadata, raisesAt)
  IN IF r.returned \/ r.raised THEN [raised |-> r.raised, value |-> r.value]
     ELSE [raised |-> FALSE, value |-> S_Untitled]

\* detect_title: except Exception: pass; return "Untitled Document"
detect_title(d, metadata, raisesAt) ==
  LET r == DetectTitleTry(d, metadata, raisesAt)
  IN IF r.returned THEN [raised |-> FALSE, value |-> r.value]
     ELSE [raised |-> FALSE, value |-> S_Untitled]

(***************************************************************************)
(* Documents the outline extractor is run on.                              *)
(***************************************************************************)
F_Regular == <<"H","e","l","v","e","t","i","c","a">>
F_Bold == <<"A","r","i","a","l","-","B","o","l","d","M","T">>
PageHeight == 10

Span(text, size, font, y) == [text |-> text, size |-> size, font |-> font, y |-> y]

\* "Intro", large and bold, near the top
L_Intro == <<Span(<<"I","n","t","r","o">>, 20, F_Bold, 1)>>
\* " INTRO" + "  ": the same text in another case, in a line of two spans
L_INTRO == <<Span(<<" ","I","N","T","R","O">>, 16, F_Bold, 2),
             Span(<<" "," ">>, 30, F_Regular, 2)>>
\* a sentence of body text, in three spans
L_Body == <<Span(<<"p","l","a","i","n"," ">>, 10, F_Regular, 5),
            Span(<<"b","o","d","y"," ","t","e","x","t"," ">>, 10, F_Regular, 5),
            Span(<<"h","e","r","e",".">>, 10, F_Regular, 5)>>
\* dai-1-sho-no: a Japanese chapter marker, bold at body size
L_Chapter == <<Span(<<"u7B2C","1","u7AE0","u306E">>, 10, F_Bold, 4)>>

OutlineLineSamples == {L_Intro, L_INTRO, L_Body, L_Chapter}

\* page indices that carry lines: the first page, the last page under the
\* cap of 50 and the first page past it
OutlinePages == {0, max_pages_to_analyze - 1, max_pages_to_analyze}
OutlinePageCounts == {0, 1, max_pages_to_analyze, max_pages_to_analyze + 1}

\* the documents of n pages with at most maxLines lines, pages ascending
DocsWith(samples, npages, maxLines) ==
  LET Lines == [page : {p \in OutlinePages : p < npages}, spans : samples]
  IN UNION {
       { [npages |-> npages, height |-> PageHeight, lines |-> ls] :
           ls \in {f \in [1..k -> Lines] :
                     \A i \in 1..(k - 1) : f[i].page <= f[i + 1].page} }
       : k \in 0..(IF npages = 0 THEN 0 ELSE maxLines) }

OutlineDocs == UNION {DocsWith(OutlineLineSamples, n, MaxLines) : n \in OutlinePageCounts}
BatchDocs == UNION {DocsWith({L_Intro, L_Body}, n, 1) : n \in OutlinePageCounts}

NoDoc == [npages |-> 0, height |-> 0, lines |-> <<>>]
NoStats == [raised |-> FALSE, median |-> 0, p75 |-> 0, p90 |-> 0]
NoResult == [title |-> <<>>, outline |-> <<>>]
ErrorResult == [title |-> S_Error, outline |-> <<>>]
EmptyResult == [title |-> S_Empty, outline |-> <<>>]

NoPdf == [name |-> <<>>, npages |-> 0, height |-> 0, lines |-> <<>>]

\* the variables of the other program stay as they are
IdleSegment ==
  /\ pdf = NoPdf /\ headings = <<>> /\ sections = <<>> /\ usedFallback = FALSE
NoOutput ==
  [input_documents |-> <<>>, persona |-> "unset",
   extracted_section |-> <<>>, sub_section_analysis |-> <<>>]
IdleAnalysis ==
  /\ pdf_files = <<>> /\ pdfIdx = 0 /\ all_sections = <<>>
  /\ ranked_sections = <<>> /\ final_output = NoOutput
  /\ persona = "unset" /\ outputWritten = FALSE
IdleCall ==
  /\ in_metadata = <<>> /\ in_raisesAt = "none" /\ in_onePointRaises = FALSE
  /\ raised = FALSE
IdleOutline ==
  /\ nFiles = 0 /\ fileIdx = 0 /\ doc = NoDoc /\ title = <<>>
  /\ font_stats = NoStats /\ lineIdx = 0 /\ outline = <<>>
  /\ seen_headings = {} /\ result = NoResult
  /\ attempted = {} /\ written = {} /\ failed = {} /\ absorbed = {}

(***************************************************************************)
(* extract_outline and process_directory.                                  *)
(***************************************************************************)
\* extract_outline: except Exception: return the error document
ExtractOutlinePropagates == [pc |-> "crashed", result |-> NoResult]
ExtractOutlineCatch == [pc |-> "write", result |-> ErrorResult]

\* process_directory: except Exception around the write: go on
WriteErrorCatch == "next"

ScanLines(d) == LinesOfPages(d, 0, PagesToScan(d))

FullLineText(l) == Strip(Join(<<" ">>, StrippedSpanTexts(l)))
IsBold(l) == Contains(Lower(l.spans[1].font), S_bold)

\* the line is one extract_outline takes for a heading
AcceptedLine(l, fs) ==
  /\ FullLineText(l) # <<>>
  /\ l.spans # <<>>
  /\ is_heading(FullLineText(l), l.spans[1].size, IsBold(l), fs)

OutlineEntry(l, fs) ==
  [level |-> classify_heading_level(l.spans[1].size, fs),
   text |-> FullLineText(l),
   page |-> l.page + 1]

SeenKeyExact(text) == text
\* the key a text is remembered and looked up under: full_line_text.lower()
SeenKey(text) == Lower(text)

\* the body of the innermost loop of extract_outline, for one line
ScanStep(l, fs, out, seen) ==
  IF AcceptedLine(l, fs) /\ SeenKey(FullLineText(l)) \notin seen
  THEN [outline |-> Append(out, OutlineEntry(l, fs)),
        seen |-> seen \cup {SeenKey(FullLineText(l))}]
  ELSE [outline |-> out, seen |-> seen]

\* process_directory up to its loop: return when the input is no directory
StartDirectory ==
  /\ pc = "start"
  /\ \E is_dir \in BOOLEAN :
       /\ ~is_dir => nFiles = 0
       /\ pc' = IF is_dir THEN "next" ELSE "finished"
  /\ UNCHANGED <<varsOutline, varsCall, varsSegment, varsAnalysis>>

\* the loop over glob("*.pdf") is exhausted
EndOfDirectory ==
  /\ pc = "next"
  /\ fileIdx = nFiles
  /\ pc' = "finished"
  /\ UNCHANGED <<varsOutline, varsCall, varsSegment, varsAnalysis>>

\* an exception inside the try block of extract_outline, on file f
RaiseInExtractOutline(f) ==
  /\ pc' = ExtractOutlineCatch.pc
  /\ result' = ExtractOutlineCatch.result
  /\ failed' = failed \cup {f}

\* the next file; extract_outline up to the title: fitz.open and len(doc)
OpenDocument(Docs) ==
  /\ pc = "next"
  /\ fileIdx < nFiles
  /\ fileIdx' = fileIdx + 1
  /\ \E d \in Docs, opens \in BOOLEAN :
       IF ~opens
       THEN /\ RaiseInExtractOutline(fileIdx + 1)
            /\ doc' = NoDoc
       ELSE IF d.npages = 0
       THEN /\ pc' = "write"
            /\ result' = EmptyResult
            /\ doc' = d
            /\ failed' = failed
       ELSE /\ pc' = "title"
            /\ result' = NoResult
            /\ doc' = d
            /\ failed' = failed
  /\ UNCHANGED <<nFiles, title, font_stats, lineIdx, outline,
                 seen_headings, attempted, written, absorbed, varsCall, varsSegment, varsAnalysis>>

\* title = self.detect_title(doc)
DetectTitle ==
  /\ pc = "title"
  /\ \E metadata \in {<<>>}, raisesAt \in {"none", "metadata", "page"} :
       LET t == detect_title(doc, metadata, raisesAt)
       IN IF t.raised
          THEN /\ RaiseInExtractOutline(fileIdx)
               /\ title' = title
          ELSE /\ pc' = "stats"
               /\ title' = t.value
               /\ UNCHANGED <<result, failed>>
       /\ absorbed' = IF DetectTitleTry(doc, metadata, raisesAt).raised
                      THEN absorbed \cup {fileIdx} ELSE absorbed
  /\ UNCHANGED <<nFiles, fileIdx, doc, font_stats, lineIdx,
                 outline, seen_headings, attempted, written,
                 varsCall, varsSegment, varsAnalysis>>

\* font_stats = self._get_font_stats(doc); pages_to_scan; seen_headings = set()
FontStats ==
  /\ pc = "stats"
  /\ \E raises \in BOOLEAN, onePointRaises \in BOOLEAN :
       LET fs == get_font_stats(doc, raises, onePointRaises)
       IN IF fs.raised
          THEN /\ RaiseInExtractOutline(fileIdx)
               /\ font_stats' = font_stats
          ELSE /\ pc' = "scan"
               /\ font_stats' = fs
               /\ UNCHANGED <<result, failed>>
  /\ lineIdx' = 0
  /\ seen_headings' = {}
  /\ outline' = <<>>
  /\ UNCHANGED <<nFiles, fileIdx, doc, title,
                 attempted, written, absorbed, varsCall, varsSegment, varsAnalysis>>

\* one line of the scan loop; the parser may raise while its page is read
ScanLine ==
  /\ pc = "scan"
  /\ lineIdx < Len(ScanLines(doc))
  /\ \E raises \in BOOLEAN :
       IF raises
       THEN /\ RaiseInExtractOutline(fileIdx)
            /\ UNCHANGED <<lineIdx, outline, seen_headings>>
       ELSE LET s == ScanStep(ScanLines(doc)[lineIdx + 1], font_stats,
                              outline, seen_headings)
            IN /\ outline' = s.outline
               /\ seen_headings' = s.seen
               /\ lineIdx' = lineIdx + 1
               /\ UNCHANGED <<pc, result, failed>>
  /\ UNCHANGED <<nFiles, fileIdx, doc, title, font_stats,
                 attempted, written, absorbed, varsCall, varsSegment, varsAnalysis>>

\* the loop is over: doc.close(); return {"title": title, "outline": outline}
FinishScan ==
  /\ pc = "scan"
  /\ lineIdx = Len(ScanLines(doc))
  /\ \E raises \in BOOLEAN :
       IF raises
       THEN RaiseInExtractOutline(fileIdx)
       ELSE /\ pc' = "write"
            /\ result' = [title |-> title, outline |-> outline]
            /\ failed' = failed
  /\ UNCHANGED <<nFiles, fileIdx, doc, title, font_stats,
                 lineIdx, outline, seen_headings, attempted, written,
                 absorbed, varsCall, varsSegment, varsAnalysis>>

\* open(<stem>.json, 'w') and json.dump(result), inside try/except; then the
\* next iteration, where the locals of the last call are gone
WriteOutput ==
  /\ pc = "write"
  /\ attempted' = attempted \cup {fileIdx}
  /\ \E ok \in BOOLEAN :
       /\ written' = IF ok THEN written \cup {fileIdx} ELSE written
       /\ pc' = IF ok THEN "next" ELSE WriteErrorCatch
  /\ doc' = NoDoc /\ title' = <<>> /\ font_stats' = NoStats /\ lineIdx' = 0
  /\ outline' = <<>> /\ seen_headings' = {} /\ result' = NoResult
  /\ UNCHANGED <<nFiles, fileIdx, failed, absorbed, varsCall, varsSegment, varsAnalysis>>

InitOutlineWith(counts) ==
  /\ pc = "start"
  /\ nFiles \in counts
  /\ fileIdx = 0 /\ doc = NoDoc /\ title = <<>>
  /\ font_stats = NoStats /\ lineIdx = 0 /\ outline = <<>>
  /\ seen_headings = {} /\ result = NoResult
  /\ attempted = {} /\ written = {} /\ failed = {} /\ absorbed = {}
  /\ IdleCall /\ IdleSegment /\ IdleAnalysis

\* extract_outline on one document of the rich set
InitOutline == InitOutlineWith({1})
NextOutline ==
  \/ StartDirectory
  \/ EndOfDirectory
  \/ OpenDocument(OutlineDocs)
  \/ DetectTitle
  \/ FontStats
  \/ ScanLine
  \/ FinishScan
  \/ WriteOutput
SpecOutline == InitOutline /\ [][NextOutline]_vars

\* process_directory on a directory of several small documents
InitBatch == InitOutlineWith(0..MaxFiles)
NextBatch ==
  \/ StartDirectory
  \/ EndOfDirectory
  \/ OpenDocument(BatchDocs)
  \/ DetectTitle
  \/ FontStats
  \/ ScanLine
  \/ FinishScan
  \/ WriteOutput
SpecBatch == InitBatch /\ [][NextBatch]_vars

(***************************************************************************)
(* Claims about the outline extractor.                                     *)
(***************************************************************************)
NoDuplicateTexts(out) ==
  \A i, j \in DOMAIN out :
    i # j => Lower(out[i].text) # Lower(out[j].text)

\* line i of the scan is accepted and no accepted line before it has the
\* same text up to case
FirstOccurrence(ls, fs, i) ==
  /\ AcceptedLine(ls[i], fs)
  /\ \A j \in 1..(i - 1) :
       AcceptedLine(ls[j], fs) =>
         Lower(FullLineText(ls[j])) # Lower(FullLineText(ls[i]))

RECURSIVE FirstOccurrences(_, _, _)
FirstOccurrences(ls, fs, k) ==
  IF k = 0 THEN <<>>
  ELSE FirstOccurrences(ls, fs, k - 1)
       \o (IF FirstOccurrence(ls, fs, k)
           THEN <<[level |-> classify_heading_level(ls[k].spans[1].size, fs),
                   text |-> FullLineText(ls[k]),
                   page |-> ls[k].page + 1]>>
           ELSE <<>>)

\* C1 as amended: an exception inside extract_outline never escapes it: the
\* call returns exactly the error document for a file whose opening, font
\* statistics or heading scan raised; a raise inside the title scan is
\* absorbed by detect_title, and unless a later step raises the file gets
\* its normal result under the title "Untitled Document"; process_directory
\* never stops on a failing document or a failing write, and every file
\* taken from the directory gets its write attempt: all of them once the
\* directory is exhausted.
C1_BatchIsolation ==
  /\ pc # "crashed"
  /\ (pc = "write" /\ fileIdx \in failed) => result = ErrorResult
  /\ (pc = "write" /\ fileIdx \in absorbed \ failed) =>
       (result # ErrorResult /\ result.title = S_Untitled)
  /\ attempted = 1..(IF pc \in {"start", "next", "finished"}
                     THEN fileIdx ELSE fileIdx - 1)
  /\ written \subseteq attempted
  /\ pc = "finished" => (fileIdx = nFiles /\ attempted = 1..nFiles)

\* C1 witness: the first file failed in extract_outline and its write failed
\* too, and the second file was still processed and written.
C1_Witness ==
  /\ pc = "finished" /\ nFiles = 2
  /\ failed = {1} /\ absorbed = {2} /\ attempted = {1, 2} /\ written = {2}

\* C1 as stated: a document whose opening, parsing, title scan or heading
\* scan raised gets exactly the error document, nothing stops the batch, and
\* every file gets its write attempt.
C1_ErrorDocumentForEveryRaise ==
  /\ pc # "crashed"
  /\ (pc = "write" /\ fileIdx \in failed \cup absorbed) => result = ErrorResult
  /\ pc = "finished" => (fileIdx = nFiles /\ attempted = 1..nFiles)

\* C6: the outline holds no two texts equal up to case, and at every point
\* of the scan it is exactly the first occurrences, in scan order, of the
\* accepted lines scanned so far, each with its own level and page.
C6_OutlineDedup ==
  /\ pc = "scan" =>
       /\ NoDuplicateTexts(outline)
       /\ outline = FirstOccurrences(ScanLines(doc), font_stats, lineIdx)
  /\ pc = "write" => NoDuplicateTexts(result.outline)

\* C6 witness: the scan is over, and an accepted line was dropped because an
\* earlier accepted line has the same text in another case.
C6_Witness ==
  /\ pc = "scan" /\ lineIdx = Len(ScanLines(doc))
  /\ \E i, j \in 1..lineIdx :
       /\ i < j
       /\ AcceptedLine(ScanLines(doc)[i], font_stats)
       /\ AcceptedLine(ScanLines(doc)[j], font_stats)
       /\ FullLineText(ScanLines(doc)[i]) # FullLineText(ScanLines(doc)[j])
       /\ Lower(FullLineText(ScanLines(doc)[i]))
            = Lower(FullLineText(ScanLines(doc)[j]))
  /\ Len(outline) = 1

PagesWithinCap(out, d) ==
  /\ \A i \in DOMAIN out :
       1 <= out[i].page /\ out[i].page <= Min(d.npages, max_pages_to_analyze)
  /\ \A i \in 1..(Len(out) - 1) : out[i].page <= out[i + 1].page

\* C7: every outline entry has a 1-based page in 1..min(totalPages, 50), and
\* the entries are in non-decreasing page order.
C7_PagesWithinCap ==
  /\ pc = "scan" => PagesWithinCap(outline, doc)
  /\ pc = "write" => PagesWithinCap(result.outline, doc)

\* C7 witness: a document of 51 pages whose returned outline ends on page 50
\* while a heading-like line on the 51st page was left out.
C7_Witness ==
  /\ pc = "write" /\ doc.npages = max_pages_to_analyze + 1
  /\ result.outline # <<>>
  /\ result.outline[Len(result.outline)].page = max_pages_to_analyze
  /\ \E i \in DOMAIN doc.lines :
       /\ doc.lines[i].page = max_pages_to_analyze
       /\ AcceptedLine(doc.lines[i], font_stats)

(***************************************************************************)
(* detect_title on its own.                                                *)
(***************************************************************************)
TitleSpan(text, size, y) == Span(text, size, F_Regular, y)
\* "Big Title", large, second from the top
T_Big == <<TitleSpan(<<"B","i","g"," ","T","i","t","l","e">>, 24, 1)>>
\* "Top Line", as large, at the very top
T_Top == <<TitleSpan(<<"T","o","p"," ","L","i","n","e">>, 24, 0)>>
\* "Other", as large and as high as "Big Title"
T_Other == <<TitleSpan(<<"O","t","h","e","r">>, 24, 1)>>
\* "Low Big", the largest, at exactly 40% of the page height
T_Low == <<TitleSpan(<<"L","o","w"," ","B","i","g">>, 30, 4)>>
\* " Sub" + "title ", small, in two spans
T_Sub == <<TitleSpan(<<" ","S","u","b">>, 12, 3),
           TitleSpan(<<"t","i","t","l","e"," ">>, 12, 3)>>
\* blanks in the largest size, and a line without spans
T_Blank == <<TitleSpan(<<" "," ">>, 40, 0)>>
T_NoSpans == <<>>
TitleLineSamples == {T_Big, T_Top, T_Other, T_Low, T_Sub, T_Blank, T_NoSpans}

TitleDocs ==
  {NoDoc} \cup
  UNION { { [npages |-> 1, height |-> PageHeight,
             lines |-> [i \in 1..k |-> [page |-> 0, spans |-> f[i]]]] :
            f \in [1..k -> TitleLineSamples] }
          : k \in 0..MaxTitleLines }

\* metadata titles: none, blanks, "Memo", " Report ", "a.pdf", "Scan.PDF "
MetadataSamples ==
  { <<>>, <<" "," "," "," "," "," ">>, <<"M","e","m","o">>,
    <<" ","R","e","p","o","r","t"," ">>, <<"a",".","p","d","f">>,
    <<"S","c","a","n",".","P","D","F"," ">> }

InitTitle ==
  /\ pc = "call"
  /\ doc \in TitleDocs
  /\ in_metadata \in MetadataSamples
  /\ in_raisesAt \in {"none", "metadata", "page"}
  /\ in_onePointRaises = FALSE /\ raised = FALSE
  /\ nFiles = 0 /\ fileIdx = 0 /\ title = <<>>
  /\ font_stats = NoStats /\ lineIdx = 0 /\ outline = <<>>
  /\ seen_headings = {} /\ result = NoResult
  /\ attempted = {} /\ written = {} /\ failed = {} /\ absorbed = {}
  /\ IdleSegment /\ IdleAnalysis

DetectTitleCall ==
  /\ pc = "call"
  /\ LET t == detect_title(doc, in_metadata, in_raisesAt)
     IN /\ title' = t.value
        /\ raised' = t.raised
  /\ pc' = "returned"
  /\ UNCHANGED <<in_metadata, in_raisesAt, in_onePointRaises, nFiles, fileIdx, doc,
                 font_stats, lineIdx, outline, seen_headings, result,
                 attempted, written, failed, absorbed, varsSegment, varsAnalysis>>

NextTitle == DetectTitleCall
SpecTitle == InitTitle /\ [][NextTitle]_vars

MetadataTitleUsable(m) ==
  Len(Strip(m)) > 4 /\ ~EndsWith(Lower(Strip(m)), S_dotpdf)

\* line l of the first page is a title candidate: it has text, and its first
\* span starts in the top 40% of the page
IsTitleCandidate(d, l) ==
  /\ l.spans # <<>>
  /\ Strip(Join(<<>>, SpanTexts(l))) # <<>>
  /\ 10 * l.spans[1].y < 4 * d.height

\* candidate l wins over m: larger, or as large and not lower on the page
NotBeatenBy(l, m) ==
  \/ l.spans[1].size > m.spans[1].size
  \/ l.spans[1].size = m.spans[1].size /\ l.spans[1].y <= m.spans[1].y

\* C9: detect_title never raises and never returns the empty string; it
\* returns the trimmed metadata title when that is longer than 4 characters
\* and does not end in ".pdf"; otherwise the text of a largest, and among
\* those topmost, first-page line of the top 40% of the page; and the
\* literal "Untitled Document" when there is none or a step raised.
C9_TitleNeverEmpty ==
  pc = "returned" =>
    /\ ~raised
    /\ title # <<>>
    /\ IF in_raisesAt = "metadata" THEN title = S_Untitled
       ELSE IF MetadataTitleUsable(in_metadata) THEN title = Strip(in_metadata)
       ELSE IF in_raisesAt = "page" \/ doc.npages = 0 THEN title = S_Untitled
       ELSE IF \E i \in DOMAIN doc.lines : IsTitleCandidate(doc, doc.lines[i])
       THEN \E i \in DOMAIN doc.lines :
              /\ IsTitleCandidate(doc, doc.lines[i])
              /\ title = Strip(Join(<<>>, SpanTexts(doc.lines[i])))
              /\ \A j \in DOMAIN doc.lines :
                   IsTitleCandidate(doc, doc.lines[j])
                     => NotBeatenBy(doc.lines[i], doc.lines[j])
       ELSE title = S_Untitled

\* C9 witness: no usable metadata title, two candidates of the largest size,
\* and the title is the text of the upper one although it comes second.
C9_Witness ==
  /\ pc = "returned" /\ in_raisesAt = "none"
  /\ in_metadata = <<"a",".","p","d","f">>
  /\ Len(doc.lines) = 2
  /\ doc.lines[1].spans = T_Big /\ doc.lines[2].spans = T_Top
  /\ title = <<"T","o","p"," ","L","i","n","e">>

(***************************************************************************)
(* _get_font_stats on its own.                                             *)
(***************************************************************************)
FontLine(size) == <<Span(<<"x">>, size, F_Regular, 0)>>
FontLineSamples ==
  {FontLine(9), FontLine(11), FontLine(12), FontLine(30), L_INTRO}
FontDocs == UNION {DocsWith(FontLineSamples, n, MaxSpans) : n \in OutlinePageCounts}

InitFont ==
  /\ pc = "call"
  /\ doc \in FontDocs
  /\ in_raisesAt \in {"none", "page"}
  /\ in_onePointRaises \in BOOLEAN
  /\ in_metadata = <<>> /\ raised = FALSE
  /\ nFiles = 0 /\ fileIdx = 0 /\ title = <<>>
  /\ font_stats = NoStats /\ lineIdx = 0 /\ outline = <<>>
  /\ seen_headings = {} /\ result = NoResult
  /\ attempted = {} /\ written = {} /\ failed = {} /\ absorbed = {}
  /\ IdleSegment /\ IdleAnalysis

GetFontStatsCall ==
  /\ pc = "call"
  /\ LET fs == get_font_stats(doc, in_raisesAt = "page", in_onePointRaises)
     IN /\ font_stats' = fs
        /\ raised' = fs.raised
  /\ pc' = "returned"
  /\ UNCHANGED <<in_metadata, in_raisesAt, in_onePointRaises, nFiles, fileIdx,
                 doc, title, lineIdx, outline, seen_headings, result,
                 attempted, written, failed, absorbed, varsSegment, varsAnalysis>>

NextFont == GetFontStatsCall
SpecFont == InitFont /\ [][NextFont]_vars

\* the sizes of the non-blank spans of the scanned pages
ScannedSizes(d) ==
  LET spans == SelectSeq(SpansOf(SelectSeq(d.lines, LAMBDA l :
                   l.page < Min(d.npages, max_pages_to_analyze))),
                 LAMBDA s : Strip(s.text) # <<>>)
  IN [i \in DOMAIN spans |-> spans[i].size]

\* m20 is 20 times a median of the sizes: half of them lie at or below it
\* and half at or above it
IsMedian20(sizes, m20) ==
  /\ 2 * Cardinality({i \in DOMAIN sizes : 20 * sizes[i] <= m20}) >= Len(sizes)
  /\ 2 * Cardinality({i \in DOMAIN sizes : 20 * sizes[i] >= m20}) >= Len(sizes)

FontStatsOrdered(fs) ==
  /\ ~fs.raised
  /\ fs.median <= fs.p75
  /\ fs.p75 <= fs.p90

\* C10: when the parser does not fail, _get_font_stats returns statistics
\* with median <= p75 <= p90: the fallback {12, 14, 16} when no scanned span
\* has text, and otherwise statistics of the collected sizes, for every
\* non-empty collection (one size included).
C10_FontStatsOrdered ==
  (pc = "returned" /\ in_raisesAt = "none") =>
    /\ ~raised
    /\ FontStatsOrdered(font_stats)
    /\ IF ScannedSizes(doc) = <<>>
       THEN font_stats = FontStatsFallback
       ELSE IsMedian20(ScannedSizes(doc), font_stats.median)

\* The same statement for the collections the code handles on every Python:
\* no scanned size, or at least two, or one where quantiles accepts one.
FontStatsOrderedFromTwoSizes ==
  (/\ pc = "returned" /\ in_raisesAt = "none"
   /\ (Len(ScannedSizes(doc)) # 1 \/ ~in_onePointRaises)) =>
    /\ ~raised
    /\ FontStatsOrdered(font_stats)
    /\ IF ScannedSizes(doc) = <<>>
       THEN font_stats = FontStatsFallback
       ELSE IsMedian20(ScannedSizes(doc), font_stats.median)

(***************************************************************************)
(* main.py: extract_text_from_pdf                                          *)
(*                                                                         *)
(* A document is [name, npages, height, lines] with one block per line: a  *)
(* line is [page, spans] and the top of its first span's box is where the  *)
(* block starts; a block without spans is an image block.                  *)
(***************************************************************************)
MAX_PAGES_TO_PROCESS == 75
\* float('inf')
Infinity == 1000000
\* len(text) > 150 in the fallback
FallbackMinLength == 150

S_Page == <<"P","a","g","e"," ">>
S_Section == <<",", " ","S","e","c","t","i","o","n"," ">>
S_Image == <<"<","i","m","a","g","e",":"," ","b","p","c",":"," ","8",">">>

allowed_single_words ==
  { <<"c","o","n","t","e","n","t">>, <<"c","o","n","t","e","n","t","s">>,
    <<"n","o","t","i","c","e">>,
    <<"i","n","t","r","o","d","u","c","t","i","o","n">>,
    <<"s","u","m","m","a","r","y">>,
    <<"c","o","n","c","l","u","s","i","o","n">>,
    <<"a","p","p","e","n","d","i","x">>, <<"g","l","o","s","s","a","r","y">>,
    <<"f","i","n","a","n","c","i","a","l","s">>,
    <<"o","p","e","r","a","t","i","o","n","s">>, <<"v","a","l","u","e">> }

PageCountToProcess(d) == Min(d.npages, MAX_PAGES_TO_PROCESS)

\* Pass 1: the sizes of the non-blank spans of the scanned pages
AllFontSizes(d) == CollectFontSizes(d, PageCountToProcess(d))

\* " ".join(s["text"] for s in l["spans"]).strip()
HeadingText(l) == Strip(Join(<<" ">>, SpanTexts(l)))

\* the heading test of Pass 1 on one line; median20 is 20 * median_size
IsSectionHeading(l, median20) ==
  LET font_size == l.spans[1].size
      text == HeadingText(l)
      is_large_enough == 200 * font_size > 12 * median20
      is_not_just_number ==
        ~IsDigitStr(RemoveAll(RemoveAll(RemoveAll(
            RemoveFirst(text, "."), "%"), "+"), "k"))
      is_long_enough == Len(text) > 3 /\ Len(text) < 150
      is_not_a_sentence ==
        ~EndsWith(text, <<".">>) /\ ~EndsWith(text, <<",">>)
      is_title_case == IsTitleStr(text) \/ IsUpperStr(text)
      word_count == WordCount(text)
      is_concise == word_count < 10
      is_valid_single_word ==
        word_count > 1 \/ (word_count = 1 /\ Lower(text) \in allowed_single_words)
  IN /\ l.spans # <<>>
     /\ is_large_enough /\ is_not_just_number /\ is_long_enough
     /\ is_not_a_sentence /\ is_title_case /\ is_concise
     /\ is_valid_single_word

\* headings, in scan order
FoundHeadings(d) ==
  LET median20 == Median20(AllFontSizes(d))
      ls == SelectSeq(LinesOfPages(d, 0, PageCountToProcess(d)),
                      LAMBDA l : IsSectionHeading(l, median20))
  IN [i \in DOMAIN ls |->
        [text |-> HeadingText(ls[i]), page |-> ls[i].page, y |-> ls[i].spans[1].y]]

HeadingKeyLessEq(a, b) ==
  \/ a.page < b.page
  \/ a.page = b.page /\ a.y <= b.y

\* the loop that keeps the first heading of every lowercased text
RECURSIVE UniqueHeadings(_, _)
UniqueHeadings(hs, seen_texts) ==
  IF hs = <<>> THEN <<>>
  ELSE IF Lower(Head(hs).text) \notin seen_texts
       THEN <<Head(hs)>>
            \o UniqueHeadings(Tail(hs), seen_texts \cup {Lower(Head(hs).text)})
       ELSE UniqueHeadings(Tail(hs), seen_texts)

\* sorted_headings
SortedHeadings(d) ==
  UniqueHeadings(StableSort(HeadingKeyLessEq, FoundHeadings(d)), {})

\* block[4] of page.get_text("blocks"): the text of the block's line and a
\* line break; an image block carries a short description
BlockText(l) ==
  IF l.spans = <<>> THEN S_Image ELSE Join(<<>>, SpanTexts(l)) \o <<"\n">>

SyntheticTitleZeroBased(page_num, i) ==
  S_Page \o IntToStr(page_num) \o S_Section \o IntToStr(i)
\* f"Page {page_num + 1}, Section {i+1}"
SyntheticTitle(page_num, i) ==
  S_Page \o IntToStr(page_num + 1) \o S_Section \o IntToStr(i + 1)

\* the fallback on one page: blocks is the page's block list, i the 0-based
\* index of the block the enumeration is at
RECURSIVE FallbackBlocks(_, _, _, _)
FallbackBlocks(d, page_num, blocks, i) ==
  IF i >= Len(blocks) THEN <<>>
  ELSE LET text == ReplaceChar(Strip(BlockText(blocks[i + 1])), "\n", " ")
       IN (IF Len(text) > FallbackMinLength
           THEN <<[doc_name |-> d.name,
                   page_number |-> page_num + 1,
                   section_title |-> SyntheticTitle(page_num, i),
                   full_text |-> text]>>
           ELSE <<>>)
          \o FallbackBlocks(d, page_num, blocks, i + 1)

\* the fallback loop over the pages (a page without blocks adds nothing)
RECURSIVE FallbackPages(_, _)
FallbackPages(d, pages) ==
  IF pages = <<>> THEN <<>>
  ELSE FallbackBlocks(d, Head(pages), PageLines(d, Head(pages)), 0)
       \o FallbackPages(d, Tail(pages))

FallbackSections(d, page_num) ==
  FallbackPages(d, PagesWithLines(d, page_num, PageCountToProcess(d)))

\* the end of heading i's section: the next heading, or the end of the scan
EndPage(d, hs, i) == IF i + 1 <= Len(hs) THEN hs[i + 1].page ELSE PageCountToProcess(d)
EndY(hs, i) == IF i + 1 <= Len(hs) THEN hs[i + 1].y ELSE Infinity
LoopEnd(d, hs, i) == Min(EndPage(d, hs, i) + 1, PageCountToProcess(d))

ClipRectWholeEndPage(d, hs, i, page_num) ==
  IF page_num = hs[i].page /\ page_num = EndPage(d, hs, i)
  THEN [y0 |-> hs[i].y, y1 |-> EndY(hs, i)]
  ELSE IF page_num = hs[i].page THEN [y0 |-> hs[i].y, y1 |-> d.height]
  ELSE [y0 |-> 0, y1 |-> d.height]

\* clip_rect of heading i (1-based) on page_num, as its vertical extent
ClipRect(d, hs, i, page_num) ==
  IF page_num = hs[i].page /\ page_num = EndPage(d, hs, i)
  THEN [y0 |-> hs[i].y, y1 |-> EndY(hs, i)]
  ELSE IF page_num = hs[i].page THEN [y0 |-> hs[i].y, y1 |-> d.height]
  ELSE IF page_num = EndPage(d, hs, i) THEN [y0 |-> 0, y1 |-> EndY(hs, i)]
  ELSE [y0 |-> 0, y1 |-> d.height]

\* doc[page_num].get_text("text", clip=rect): the lines that start inside
\* the rectangle, each followed by a line break
TextInClip(d, page_num, rect) ==
  LET ls == SelectSeq(PageLines(d, page_num), LAMBDA l :
              /\ l.spans # <<>>
              /\ rect.y0 <= l.spans[1].y
              /\ l.spans[1].y < rect.y1)
  IN Join(<<>>, [k \in DOMAIN ls |-> Join(<<>>, SpanTexts(ls[k])) \o <<"\n">>])

\* content, for heading i over the given pages (a page without lines
\* adds the empty string)
RECURSIVE ContentOfPages(_, _, _, _)
ContentOfPages(d, hs, i, pages) ==
  IF pages = <<>> THEN <<>>
  ELSE TextInClip(d, Head(pages), ClipRect(d, hs, i, Head(pages)))
       \o ContentOfPages(d, hs, i, Tail(pages))

\* for page_num in range(start_page, loop_end): content += get_text(clip)
SectionContent(d, hs, i, page_num) ==
  ContentOfPages(d, hs, i, PagesWithLines(d, page_num, LoopEnd(d, hs, i)))

RECURSIVE HeadingSections(_, _, _)
HeadingSections(d, hs, i) ==
  IF i > Len(hs) THEN <<>>
  ELSE LET content == SectionContent(d, hs, i, hs[i].page)
       IN (IF Strip(content) # <<>>
           THEN <<[doc_name |-> d.name,
                   page_number |-> hs[i].page + 1,
                   section_title |-> hs[i].text,
                   full_text |-> ReplaceChar(Strip(content), "\n", " ")]>>
           ELSE <<>>)
          \o HeadingSections(d, hs, i + 1)

\* extract_text_from_pdf.  raises: the parser raises (the function has no
\* handler, so the exception leaves it).  path: the return statement taken.
extract_text_from_pdf(d, raises) ==
  LET sorted_headings == SortedHeadings(d) IN
  IF raises
  THEN [raised |-> TRUE, path |-> "raise", headings |-> <<>>, sections |-> <<>>]
  ELSE IF d.npages = 0
  THEN [raised |-> FALSE, path |-> "empty", headings |-> <<>>, sections |-> <<>>]
  ELSE IF AllFontSizes(d) = <<>>
  THEN [raised |-> FALSE, path |-> "no_text", headings |-> <<>>, sections |-> <<>>]
  ELSE IF sorted_headings = <<>>
  THEN [raised |-> FALSE, path |-> "fallback", headings |-> <<>>,
        sections |-> FallbackSections(d, 0)]
  ELSE [raised |-> FALSE, path |-> "headings", headings |-> sorted_headings,
        sections |-> HeadingSections(d, sorted_headings, 1)]

(***************************************************************************)
(* Documents extract_text_from_pdf is run on.                              *)
(***************************************************************************)
SegPageHeight == 4
S_doc == <<"d","o","c">>
S_notes == <<"n","o","t","e","s">>
ABCDE == <<"a","b","c","d"," ">>

\* "Summary" and "SUMMARY": one allowed single word, in two cases
H_Summary(y) == <<Span(<<"S","u","m","m","a","r","y">>, 20, F_Bold, y)>>
H_SUMMARY(y) == <<Span(<<"S","U","M","M","A","R","Y">>, 18, F_Bold, y)>>
\* "Risk " + "Factors": a title-case heading of two spans
H_Risk(y) == <<Span(<<"R","i","s","k">>, 20, F_Bold, y),
               Span(<<"F","a","c","t","o","r","s">>, 20, F_Bold, y)>>
\* body text of 151 characters in three spans, and of 150 in one
LongBody(c, y) == <<Span(Repeat(ABCDE, 10), 10, F_Regular, y),
                    Span(Repeat(ABCDE, 10), 10, F_Regular, y),
                    Span(Repeat(ABCDE, 10) \o <<c>>, 10, F_Regular, y)>>
B_Long(y) == LongBody("x", y)
B_Short(y) == <<Span(Repeat(ABCDE, 29) \o <<"a","b","c","d","e">>, 10, F_Regular, y)>>
\* an image block
B_Image(y) == <<>>

\* the blocks a page of a document is made of, at height y
SegSamples(y) ==
  <<H_Summary(y), H_SUMMARY(y), H_Risk(y), B_Long(y), B_Short(y), B_Image(y)>>

\* pages that carry blocks: the first page, the last page under the cap of
\* 75 and the first page past it; blocks start at the top or in the middle
SegPages == {0, MAX_PAGES_TO_PROCESS - 1, MAX_PAGES_TO_PROCESS}
SegPageCounts == {0, 1, MAX_PAGES_TO_PROCESS, MAX_PAGES_TO_PROCESS + 1}
SegPositions(npages) == {pos \in SegPages \X {0, 2} : pos[1] < npages}

PosLess(a, b) == a[1] < b[1] \/ (a[1] = b[1] /\ a[2] < b[2])

\* the positions of a set in reading order
RECURSIVE InReadingOrder(_)
InReadingOrder(S) ==
  IF S = {} THEN <<>>
  ELSE LET first == CHOOSE a \in S : \A b \in S \ {a} : PosLess(a, b)
       IN <<first>> \o InReadingOrder(S \ {first})

\* the document of npages pages with block g[i] at the i-th position of S
SegDoc(npages, S, g) ==
  LET order == InReadingOrder(S)
  IN [name |-> S_doc \o S_dotpdf, npages |-> npages, height |-> SegPageHeight,
      lines |-> [i \in 1..Cardinality(S) |->
                   [page |-> order[i][1],
                    spans |-> SegSamples(order[i][2])[g[i]] ] ] ]

\* a document of three pages without headings, two blocks of more than 150
\* characters on each page
ScenarioDoc ==
  [name |-> S_notes \o S_dotpdf, npages |-> 3, height |-> SegPageHeight,
   lines |-> [i \in 1..6 |->
                [page |-> (i - 1) \div 2,
                 spans |-> B_Long(IF i % 2 = 1 THEN 0 ELSE 2)]]]

InitSegment ==
  /\ pc = "call"
  /\ \/ pdf = ScenarioDoc
     \/ \E npages \in SegPageCounts :
          \E S \in {T \in SUBSET SegPositions(npages) : Cardinality(T) <= MaxBlocks} :
            \E g \in [1..Cardinality(S) -> DOMAIN SegSamples(0)] :
              pdf = SegDoc(npages, S, g)
  /\ headings = <<>> /\ sections = <<>> /\ usedFallback = FALSE
  /\ IdleCall /\ IdleOutline /\ IdleAnalysis

\* extract_text_from_pdf up to "sorted_headings = unique_headings"
FindHeadings ==
  /\ pc = "call"
  /\ \E raises \in BOOLEAN :
       LET r == extract_text_from_pdf(pdf, raises)
       IN /\ raised' = r.raised
          /\ headings' = r.headings
          /\ pc' = IF r.path \in {"raise", "empty", "no_text"}
                   THEN "returned" ELSE "segment"
  /\ UNCHANGED <<in_metadata, in_raisesAt, in_onePointRaises, pdf, sections,
                 usedFallback, varsOutline, varsAnalysis>>

\* "if not sorted_headings:" the block slicing, and its return
Fallback ==
  /\ pc = "segment"
  /\ headings = <<>>
  /\ usedFallback' = TRUE
  /\ \E raises \in BOOLEAN :
       /\ raised' = raises
       /\ sections' = IF raises THEN <<>> ELSE FallbackSections(pdf, 0)
  /\ pc' = "returned"
  /\ UNCHANGED <<in_metadata, in_raisesAt, in_onePointRaises, pdf, headings,
                 varsOutline, varsAnalysis>>

\* the loop over sorted_headings, doc.close() and the return
Segment ==
  /\ pc = "segment"
  /\ headings # <<>>
  /\ \E raises \in BOOLEAN :
       /\ raised' = raises
       /\ sections' = IF raises THEN <<>> ELSE HeadingSections(pdf, headings, 1)
  /\ pc' = "returned"
  /\ UNCHANGED <<in_metadata, in_raisesAt, in_onePointRaises, pdf, headings,
                 usedFallback, varsOutline, varsAnalysis>>

NextSegment == FindHeadings \/ Fallback \/ Segment
SpecSegment == InitSegment /\ [][NextSegment]_vars

(***************************************************************************)
(* Claims about extract_text_from_pdf.                                     *)
(***************************************************************************)
HeadingPos(h) == <<h.page, h.y>>
PosLessEq(a, b) == a = b \/ PosLess(a, b)

StrictlyIncreasing(hs) ==
  \A i \in 1..(Len(hs) - 1) : PosLess(HeadingPos(hs[i]), HeadingPos(hs[i + 1]))

\* the clip rectangles of heading i take in position pos = <<page, y>>
Covers(d, hs, i, pos) ==
  /\ hs[i].page <= pos[1]
  /\ pos[1] < LoopEnd(d, hs, i)
  /\ ClipRect(d, hs, i, pos[1]).y0 <= pos[2]
  /\ pos[2] < ClipRect(d, hs, i, pos[1]).y1

CoverCount(d, hs, pos) == Cardinality({i \in DOMAIN hs : Covers(d, hs, i, pos)})

\* every position of the scanned pages [0, min(totalPages, 75))
ScannedPositions(d) == (0..(PageCountToProcess(d) - 1)) \X (0..(d.height - 1))

\* the text of the lines of the scanned pages from heading i up to just
\* before heading i + 1, in reading order
OwnedText(d, hs, i) ==
  LET ls == SelectSeq(d.lines, LAMBDA l :
              /\ l.spans # <<>>
              /\ l.page < PageCountToProcess(d)
              /\ PosLessEq(HeadingPos(hs[i]), <<l.page, l.spans[1].y>>)
              /\ (i < Len(hs) =>
                    PosLess(<<l.page, l.spans[1].y>>, HeadingPos(hs[i + 1]))))
  IN Join(<<>>, [k \in DOMAIN ls |-> Join(<<>>, SpanTexts(ls[k])) \o <<"\n">>])

SegmentReturned ==
  /\ pc = "returned" /\ ~raised
  /\ headings # <<>> /\ StrictlyIncreasing(headings)

\* C3 as stated: with headings strictly increasing in (page, y), the ranges
\* of the sections cover every position of the scanned pages exactly once.
C3_TilesWholeScan ==
  SegmentReturned =>
    \A pos \in ScannedPositions(pdf) : CoverCount(pdf, headings, pos) = 1

\* C3 as amended: heading i owns exactly the positions from its own up to
\* just before the next heading's (the last one up to the end of the scanned
\* pages), so every position from the first heading on lies in exactly one
\* section and the positions before the first heading in none; and every
\* heading gives one section, under its text and its 1-based page, holding
\* the text of the lines at those positions.
C3_TilesFromFirstHeading ==
  SegmentReturned =>
    /\ \A pos \in ScannedPositions(pdf) :
         /\ CoverCount(pdf, headings, pos)
              = IF PosLess(pos, HeadingPos(headings[1])) THEN 0 ELSE 1
         /\ \A i \in DOMAIN headings :
              Covers(pdf, headings, i, pos) <=>
                /\ PosLessEq(HeadingPos(headings[i]), pos)
                /\ (i < Len(headings) => PosLess(pos, HeadingPos(headings[i + 1])))
    /\ Len(sections) = Len(headings)
    /\ \A i \in DOMAIN sections :
         /\ sections[i].section_title = headings[i].text
         /\ sections[i].page_number = headings[i].page + 1
         /\ sections[i].full_text
              = ReplaceChar(Strip(OwnedText(pdf, headings, i)), "\n", " ")

\* C3 witness: text at the top of the first page, a first heading below it
\* and a second heading on the last scanned page of a 76-page document.
C3_Witness ==
  /\ SegmentReturned
  /\ pdf.npages = MAX_PAGES_TO_PROCESS + 1
  /\ Len(headings) = 2 /\ Len(sections) = 2
  /\ HeadingPos(headings[1]) = <<0, 2>>
  /\ headings[2].page = MAX_PAGES_TO_PROCESS - 1
  /\ headings[2].y = 2

\* a scanned page holds a span with text
HasScannedText(d) ==
  \E i \in DOMAIN d.lines :
    /\ d.lines[i].page < Min(d.npages, MAX_PAGES_TO_PROCESS)
    /\ \E k \in DOMAIN d.lines[i].spans : Strip(d.lines[i].spans[k].text) # <<>>

\* the blocks of the scanned pages whose text is longer than 150 characters,
\* as <<page, 1-based index of the block on its page>>
LongBlocks(d) ==
  { pm \in {l.page : l \in Range(d.lines)} \X (1..Len(d.lines)) :
      /\ pm[1] < Min(d.npages, MAX_PAGES_TO_PROCESS)
      /\ pm[2] <= Len(PageLines(d, pm[1]))
      /\ Len(Strip(BlockText(PageLines(d, pm[1])[pm[2]]))) > FallbackMinLength }

FallbackOutput ==
  /\ Len(sections) = Cardinality(LongBlocks(pdf))
  /\ \A k \in DOMAIN sections :
       \E pm \in LongBlocks(pdf) :
         /\ sections[k].section_title
              = S_Page \o IntToStr(pm[1] + 1) \o S_Section \o IntToStr(pm[2])
         /\ sections[k].page_number = pm[1] + 1
  /\ \A k, m \in DOMAIN sections :
       k # m => sections[k].section_title # sections[m].section_title

ScenarioTitles ==
  << <<"P","a","g","e"," ","1",","," ","S","e","c","t","i","o","n"," ","1">>,
     <<"P","a","g","e"," ","1",","," ","S","e","c","t","i","o","n"," ","2">>,
     <<"P","a","g","e"," ","2",","," ","S","e","c","t","i","o","n"," ","1">>,
     <<"P","a","g","e"," ","2",","," ","S","e","c","t","i","o","n"," ","2">>,
     <<"P","a","g","e"," ","3",","," ","S","e","c","t","i","o","n"," ","1">>,
     <<"P","a","g","e"," ","3",","," ","S","e","c","t","i","o","n"," ","2">> >>

FallbackRest ==
  /\ usedFallback => FallbackOutput
  /\ headings # <<>> =>
       \A k \in DOMAIN sections :
         \E i \in DOMAIN headings : sections[k].section_title = headings[i].text
  /\ pdf = ScenarioDoc =>
       [k \in DOMAIN sections |-> sections[k].section_title] = ScenarioTitles

\* C4 as stated: the fallback runs if and only if no heading was accepted;
\* then every block over 150 characters is one section titled "Page n,
\* Section m"; the three-page scenario gives its six titles; with a heading
\* accepted every section is titled by a heading.
C4_FallbackIffNoHeadings ==
  (pc = "returned" /\ ~raised) =>
    /\ usedFallback <=> headings = <<>>
    /\ FallbackRest

\* C4 as amended: the fallback runs if and only if no heading was accepted
\* and the scanned pages hold a span with text (a document without pages or
\* without text returns no section before the fallback is reached); the
\* rest as stated.
C4_FallbackIffTextAndNoHeadings ==
  (pc = "returned" /\ ~raised) =>
    /\ usedFallback <=> (headings = <<>> /\ pdf.npages > 0 /\ HasScannedText(pdf))
    /\ ~usedFallback /\ headings = <<>> => sections = <<>>
    /\ FallbackRest

\* C4 witness: the three-page scenario went through the fallback and gave
\* six sections.
C4_Witness ==
  /\ pc = "returned" /\ ~raised /\ usedFallback
  /\ pdf = ScenarioDoc
  /\ Len(sections) = 6

(***************************************************************************)
(* run_analysis.                                                           *)
(***************************************************************************)
ReportSize == 10
RefinedTextLength == 500
S_mixed == <<"m","i","x","e","d">>
S_report == <<"r","e","p","o","r","t">>
S_EMPTY == <<"E","M","P","T","Y">>
S_DOTPDF == <<".","P","D","F">>
S_personajson == <<"p","e","r","s","o","n","a",".","j","s","o","n">>

\* three pages without headings, two long blocks of different text on each
MixedDoc ==
  [name |-> S_mixed \o S_dotpdf, npages |-> 3, height |-> SegPageHeight,
   lines |-> [i \in 1..6 |->
                [page |-> (i - 1) \div 2,
                 spans |-> IF i % 2 = 1 THEN LongBody("y", 0)
                           ELSE LongBody("z", 2)]]]
\* one page: the heading "Summary" and its body
ReportDoc ==
  [name |-> S_report \o S_dotpdf, npages |-> 1, height |-> SegPageHeight,
   lines |-> <<[page |-> 0, spans |-> H_Summary(0)],
               [page |-> 0, spans |-> B_Long(2)]>>]
\* a document without pages, under an upper-case extension
EmptyDoc ==
  [name |-> S_EMPTY \o S_DOTPDF, npages |-> 0, height |-> SegPageHeight,
   lines |-> <<>>]
\* persona.json lies in the input directory too
PersonaFile ==
  [name |-> S_personajson, npages |-> 0, height |-> 0, lines |-> <<>>]

DirectoryEntries == {ScenarioDoc, MixedDoc, ReportDoc, EmptyDoc, PersonaFile}

\* os.listdir(input_dir): the entries of a directory, in any order
Listings ==
  {l \in UNION {[1..n -> DirectoryEntries] : n \in 0..(MaxPdfs + 1)} :
     /\ \A i, j \in DOMAIN l : i # j => l[i] # l[j]
     /\ Cardinality({i \in DOMAIN l : l[i] # PersonaFile}) <= MaxPdfs}

\* [input_dir / f for f in os.listdir(input_dir) if f.lower().endswith('.pdf')]
PdfFilesOf(listing) ==
  SelectSeq(listing, LAMBDA f : EndsWith(Lower(f.name), S_dotpdf))

\* the scores cos_sim gives: one per section text
Scores == 1..MaxScore
SectionTexts(secs) == {secs[i].full_text : i \in DOMAIN secs}

\* section['relevance_score'] = cosine_scores[0][i].item()
ScoreSections(secs, score) ==
  [i \in DOMAIN secs |->
     [doc_name |-> secs[i].doc_name,
      page_number |-> secs[i].page_number,
      section_title |-> secs[i].section_title,
      full_text |-> secs[i].full_text,
      relevance_score |-> score[secs[i].full_text]]]

ScoreLessEq(a, b) == a.relevance_score <= b.relevance_score
ScoreGreaterEq(a, b) == a.relevance_score >= b.relevance_score

RECURSIVE Reverse(_)
Reverse(s) == IF s = <<>> THEN <<>> ELSE Reverse(Tail(s)) \o <<Head(s)>>

RankAscendingReversed(secs) == Reverse(StableSort(ScoreLessEq, secs))
\* sorted(all_sections, key=relevance_score, reverse=True): descending, and
\* sections of equal score stay in their order
RankSections(secs) == StableSort(ScoreGreaterEq, secs)

\* ranked_sections[:10]
TopSections(ranked) == SubSeq(ranked, 1, Min(Len(ranked), ReportSize))

\* section["full_text"][:500] + "..."
RefinedText(text) ==
  SubSeq(text, 1, Min(Len(text), RefinedTextLength)) \o <<".", ".", ".">>

\* final_output, without its timestamp
FinalOutput(files, who, ranked) ==
  [input_documents |-> [i \in DOMAIN files |-> files[i].name],
   persona |-> who,
   extracted_section |->
     [i \in DOMAIN TopSections(ranked) |->
        [document |-> ranked[i].doc_name,
         page_number |-> ranked[i].page_number,
         section_title |-> ranked[i].section_title,
         importance_rank |-> i]],
   sub_section_analysis |->
     [i \in DOMAIN TopSections(ranked) |->
        [document |-> ranked[i].doc_name,
         refined_text |-> RefinedText(ranked[i].full_text),
         page_number |-> ranked[i].page_number]]]

\* an exception of extract_text_from_pdf inside the loop of run_analysis,
\* which has no handler around the call
ExtractionRaised == "crashed"

InitAnalysis ==
  /\ pc = "load_model"
  /\ IdleCall /\ IdleOutline /\ IdleSegment /\ IdleAnalysis

\* Step 1: model = SentenceTransformer(model_path)
LoadModel ==
  /\ pc = "load_model"
  /\ \E loads \in BOOLEAN : pc' = IF loads THEN "load_persona" ELSE "crashed"
  /\ UNCHANGED <<varsCall, varsOutline, varsSegment, varsAnalysis>>

\* Step 2: open persona.json, json.load, the two keys
LoadPersona ==
  /\ pc = "load_persona"
  /\ \E found \in {"ok", "missing", "malformed"} :
       /\ persona' = found
       /\ pc' = IF found = "ok" THEN "list" ELSE "crashed"
  /\ UNCHANGED <<pdf_files, pdfIdx, all_sections, ranked_sections,
                 final_output, outputWritten, varsCall, varsOutline, varsSegment>>

\* Step 3, up to the loop: os.listdir inside try/except, the *.pdf entries
ListFiles ==
  /\ pc = "list"
  /\ \E listing \in Listings, lists \in BOOLEAN :
       pdf_files' = IF lists THEN PdfFilesOf(listing) ELSE <<>>
  /\ pdfIdx' = 0
  /\ all_sections' = <<>>
  /\ pc' = "extract"
  /\ UNCHANGED <<ranked_sections, final_output, persona, outputWritten,
                 varsCall, varsOutline, varsSegment>>

\* one iteration: all_sections.extend(extract_text_from_pdf(pdf_file))
ExtractSections ==
  /\ pc = "extract"
  /\ pdfIdx < Len(pdf_files)
  /\ pdfIdx' = pdfIdx + 1
  /\ \E raises \in BOOLEAN :
       LET r == extract_text_from_pdf(pdf_files[pdfIdx + 1], raises)
       IN /\ raised' = r.raised
          /\ pc' = IF r.raised THEN ExtractionRaised ELSE "extract"
          /\ all_sections' = all_sections \o r.sections
  /\ UNCHANGED <<in_metadata, in_raisesAt, in_onePointRaises, pdf_files,
                 ranked_sections, final_output, persona, outputWritten,
                 varsOutline, varsSegment>>

\* Step 4: the scores, and ranked_sections = sorted(...)
RankStep ==
  /\ pc = "extract"
  /\ pdfIdx = Len(pdf_files)
  /\ \E score \in [SectionTexts(all_sections) -> Scores] :
       /\ all_sections' = ScoreSections(all_sections, score)
       /\ ranked_sections' = RankSections(ScoreSections(all_sections, score))
  /\ pc' = "report"
  /\ UNCHANGED <<pdf_files, pdfIdx, final_output, persona, outputWritten,
                 varsCall, varsOutline, varsSegment>>

\* Step 5: final_output and the loop over ranked_sections[:10]
GenerateOutput ==
  /\ pc = "report"
  /\ final_output' = FinalOutput(pdf_files, persona, ranked_sections)
  /\ pc' = "write_output"
  /\ UNCHANGED <<pdf_files, pdfIdx, all_sections, ranked_sections, persona,
                 outputWritten, varsCall, varsOutline, varsSegment>>

\* open(output_path, 'w') and json.dump(final_output)
WriteOutputJson ==
  /\ pc = "write_output"
  /\ \E writes \in BOOLEAN :
       /\ outputWritten' = writes
       /\ pc' = IF writes THEN "done" ELSE "crashed"
  /\ UNCHANGED <<pdf_files, pdfIdx, all_sections, ranked_sections,
                 final_output, persona, varsCall, varsOutline, varsSegment>>

NextAnalysis ==
  \/ LoadModel
  \/ LoadPersona
  \/ ListFiles
  \/ ExtractSections
  \/ RankStep
  \/ GenerateOutput
  \/ WriteOutputJson
SpecAnalysis == InitAnalysis /\ [][NextAnalysis]_vars

(***************************************************************************)
(* Claims about run_analysis.                                              *)
(***************************************************************************)
\* C2: when extract_text_from_pdf raises on one PDF, run_analysis catches the
\* exception at the document and goes on to the remaining PDFs and to the
\* output file: the run never ends on that exception.
C2_FailingPdfIsSkipped == raised => pc # "crashed"

\* C8: when persona.json is missing or malformed the run still reaches the
\* step that writes output.json: it never ends on that exception.
C8_PersonaFailureStillWrites ==
  persona \in {"missing", "malformed"} => pc # "crashed"

Reported == pc \in {"write_output", "done"}

\* the place of a section in all_sections (sections are pairwise different)
SourceIndex(sec) == CHOOSE i \in DOMAIN all_sections : all_sections[i] = sec

\* C5: the report holds min(N, 10) entries ranked 1, 2, ... in list order,
\* they are the first min(N, 10) of all N sections put in non-increasing
\* order of score with equal scores in source order, no section left out
\* scores higher than one in the report, and sub-section_analysis lists the
\* same sections in the same order.
C5_RankedReport ==
  Reported =>
    LET N == Len(all_sections)
        K == Min(N, ReportSize)
        es == final_output.extracted_section
        ssa == final_output.sub_section_analysis
    IN /\ Len(ranked_sections) = N
       /\ \A i \in 1..N : \E j \in 1..N : ranked_sections[j] = all_sections[i]
       /\ \A i, j \in 1..N :
            i < j =>
              \/ ranked_sections[i].relevance_score
                   > ranked_sections[j].relevance_score
              \/ /\ ranked_sections[i].relevance_score
                      = ranked_sections[j].relevance_score
                 /\ SourceIndex(ranked_sections[i])
                      < SourceIndex(ranked_sections[j])
       /\ Len(es) = K /\ Len(ssa) = K
       /\ \A i \in 1..K :
            /\ es[i].importance_rank = i
            /\ es[i].document = ranked_sections[i].doc_name
            /\ es[i].page_number = ranked_sections[i].page_number
            /\ es[i].section_title = ranked_sections[i].section_title
            /\ ssa[i].document = es[i].document
            /\ ssa[i].page_number = es[i].page_number
            /\ ssa[i].refined_text
                 = RefinedText(ranked_sections[i].full_text)
       /\ \A i \in 1..K : \A j \in (K + 1)..N :
            ranked_sections[j].relevance_score
              <= ranked_sections[i].relevance_score

\* C5 witness: twelve sections of two documents, the later document's
\* sections scored higher on one text and equal to the earlier document's on
\* the other, so that the report of ten is reordered, keeps a tie in source
\* order and leaves two sections out.
C5_Witness ==
  /\ pc = "done"
  /\ Len(all_sections) = 12
  /\ Len(final_output.extracted_section) = ReportSize
  /\ all_sections[1].doc_name = ScenarioDoc.name
  /\ final_output.extracted_section[1].document = MixedDoc.name
  /\ ranked_sections[1].relevance_score > ranked_sections[12].relevance_score
  /\ ranked_sections[9].doc_name = ScenarioDoc.name
  /\ ranked_sections[9].relevance_score = ranked_sections[10].relevance_score
  /\ ranked_sections[10].doc_name = MixedDoc.name

====
